---------------------------- MODULE Spec2Model ----------------------------
(***************************************************************************)
(* Method recommendation engine (semantic validation, scoring, tiering)    *)
(* and the CSV ingestion that builds its catalog.                          *)
(*                                                                         *)
(* Spec     : groupMethodsByFit over bounded catalogs and selections.      *)
(* SpecCsv  : csv-to-json.js over bounded header rows and data rows.       *)
(*                                                                         *)
(* JavaScript arrays that the program uses as sets (selected values,       *)
(* attribute values) are sets here; a key that is absent from an object is *)
(* a key outside the DOMAIN of the function modelling it.  matchPercentage *)
(* is on the source's 0..100 scale.                                        *)
(***************************************************************************)
EXTENDS Integers, Sequences, FiniteSets, TLC

VARIABLES
    catalog,         \* the methods handed to groupMethodsByFit
    userSelections,  \* state.userSelections: category id -> selected values
    methodData,      \* the methodData computed for each catalog entry
    groups,          \* the groups groupMethodsByFit returns
    validation,      \* what isSemanticMismatch did for each catalog entry
    pc,              \* "idle" before the call, "done" after it
    headers,         \* csv-to-json: the cells of the header line
    categories,      \* csv-to-json: the category descriptors built so far
    methods,         \* csv-to-json: the methods built so far
    rowsRead,        \* csv-to-json: the data lines the row loop has consumed
    jsonData,        \* csv-to-json: the object written to the output file
    cpc              \* csv-to-json: "read", "rows", "written" or "threw"

engineVars == <<catalog, userSelections, methodData, groups, validation, pc>>
csvVars == <<headers, categories, methods, rowsRead, jsonData, cpc>>
vars == <<engineVars, csvVars>>

----------------------------------------------------------------------------
(* Bounds *)

MaxMethods == 2     \* methods in a catalog
MaxColumns == 2     \* columns of the CSV after the method-name column
MaxRows == 1        \* data lines of the CSV

----------------------------------------------------------------------------
(* Attribute model: the category ids of the catalog *)

SEM == "sem_level"
TECH == "participants_access_to_technology_eg_phones_internet"
CULT == "level_of_cultural_restrictiveness"
RES == "available_resources"
CTX == "context_stability"
STALE == "legacy_filter"     \* an id no category of the catalog has

CategoryIds == {SEM, TECH, CULT, RES, CTX}

----------------------------------------------------------------------------
(* Semantic validation: isSemanticMismatch *)

digitalMethods ==
    { "Quantitative Surveys (Digital/Online)",
      "Digital Diaries/Journals",
      "Participatory Video/Digital Storytelling",
      "Real-Time Polling (U-Report)",
      "Social Listening/Digital Traces" }

visibilityMethods == { "Photovoice", "Participatory Video/Digital Storytelling" }

\* obj[key] || []
OrEmpty(obj, key) == IF key \in DOMAIN obj THEN obj[key] ELSE {}

\* Rule 1: `if (userSelections.sem_level)` is taken for every array, the
\* empty one included; only an absent key is falsy.
Rule1Fires(method, us) ==
    /\ SEM \in DOMAIN us
    /\ LET methodSemLevels == OrEmpty(method.attributes, SEM)
           userSemLevels == us[SEM]
           hasOverlap == \E level \in userSemLevels : level \in methodSemLevels
       IN  ~hasOverlap /\ Cardinality(methodSemLevels) > 0

\* Rule 2 without the `userTech.length === 1` test.
Rule2Fires_AnyLow(method, us) ==
    /\ method.name \in digitalMethods
    /\ "Low" \in OrEmpty(us, TECH)

Rule2Fires(method, us) ==
    /\ method.name \in digitalMethods
    /\ LET userTech == OrEmpty(us, TECH)
       IN  "Low" \in userTech /\ Cardinality(userTech) = 1

\* Rule 3 without the `userCultural.length === 1` test.
Rule3Fires_AnyHigh(method, us) ==
    /\ method.name \in visibilityMethods
    /\ "High" \in OrEmpty(us, CULT)

Rule3Fires(method, us) ==
    /\ method.name \in visibilityMethods
    /\ LET userCultural == OrEmpty(us, CULT)
       IN  "High" \in userCultural /\ Cardinality(userCultural) = 1

isSemanticMismatch(method, us) ==
    IF Rule1Fires(method, us) THEN TRUE
    ELSE IF Rule2Fires(method, us) THEN TRUE
    ELSE IF Rule3Fires(method, us) THEN TRUE
    ELSE FALSE

\* The rules in the order the function tests them.
RuleOrder == << "level-overlap", "technology-floor", "cultural-visibility" >>

ruleFires(rule, method, us) ==
    CASE rule = "level-overlap" -> Rule1Fires(method, us)
      [] rule = "technology-floor" -> Rule2Fires(method, us)
      [] rule = "cultural-visibility" -> Rule3Fires(method, us)

\* Rule 3 tested before Rule 2.
returnSite_Rule3First(method, us) ==
    IF Rule1Fires(method, us) THEN 1
    ELSE IF Rule3Fires(method, us) THEN 3
    ELSE IF Rule2Fires(method, us) THEN 2
    ELSE 0

\* The `return true` the call leaves by: the position in RuleOrder of the
\* rule it belongs to, 0 for the final `return false`.
returnSite(method, us) ==
    IF Rule1Fires(method, us) THEN 1
    ELSE IF Rule2Fires(method, us) THEN 2
    ELSE IF Rule3Fires(method, us) THEN 3
    ELSE 0

\* One call of isSemanticMismatch: its boolean result, the rules whose test
\* it ran, and the rule whose `return true` it took, if any.  The function
\* returns nothing but the boolean.
runSemanticCheck(method, us) ==
    LET site == returnSite(method, us)
    IN  [ result |-> isSemanticMismatch(method, us),
          evaluated |-> IF site = 0 THEN RuleOrder ELSE SubSeq(RuleOrder, 1, site),
          returnedBy |-> IF site = 0 THEN <<>> ELSE << RuleOrder[site] >> ]

----------------------------------------------------------------------------
(* Match scorer *)

\* Every key of the selection counted, known to the catalog or not.
filteredCategories_AllKeys(us) ==
    { c \in DOMAIN us : us[c] # {} }

filteredCategories(us) ==
    { c \in CategoryIds : c \in DOMAIN us /\ us[c] # {} }

\* An undeclared category counted as a mismatch.
matchesCategory_AbsentFails(method, us, c) ==
    /\ c \in DOMAIN method.attributes
    /\ method.attributes[c] \cap us[c] # {}

matchesCategory(method, us, c) ==
    \/ c \notin DOMAIN method.attributes
    \/ method.attributes[c] \cap us[c] # {}

score(method, us) ==
    LET filtered == filteredCategories(us)
        matched == { c \in filtered : matchesCategory(method, us, c) }
        total == Cardinality(filtered)
    IN  [ matchedCategories |-> matched,
          totalFilteredCategories |-> total,
          matchPercentage |-> IF total = 0 THEN 100
                              ELSE (Cardinality(matched) * 100) \div total ]

----------------------------------------------------------------------------
(* Tier classifier: groupMethodsByFit *)

emptyGroups ==
    [ bestFit |-> <<>>, goodAlternatives |-> <<>>,
      stretchOptions |-> <<>>, excluded |-> <<>> ]

\* The tier below the two the source names: a positive score is a stretch
\* option, a score of 0 is listed nowhere.
remainingTier(matchPercentage) ==
    IF matchPercentage > 0 THEN {"stretchOptions"} ELSE {}

\* `> 80` in place of `>= 80`.
tiersFor_Above80(matchPercentage) ==
    IF matchPercentage = 100 THEN {"bestFit"}
    ELSE IF matchPercentage > 80 THEN {"goodAlternatives"}
    ELSE remainingTier(matchPercentage)

\* `if` in place of `else if`: a score of 100 is pushed to both groups.
tiersFor_NoElse(matchPercentage) ==
    (IF matchPercentage = 100 THEN {"bestFit"} ELSE {})
    \cup (IF matchPercentage >= 80 THEN {"goodAlternatives"}
          ELSE remainingTier(matchPercentage))

\* The if / else-if chain: the groups an entry is pushed to.
tiersFor(matchPercentage) ==
    IF matchPercentage = 100 THEN {"bestFit"}
    ELSE IF matchPercentage >= 80 THEN {"goodAlternatives"}
    ELSE remainingTier(matchPercentage)

\* methodData of catalog entry i; `method` is the reference to catalog[i].
makeMethodData(allMethods, us, i) ==
    LET s == score(allMethods[i], us)
    IN  [ method |-> i,
          matchedCategories |-> s.matchedCategories,
          totalFilteredCategories |-> s.totalFilteredCategories,
          matchPercentage |-> s.matchPercentage ]

push(g, tiers, data) ==
    [ t \in DOMAIN g |-> IF t \in tiers THEN Append(g[t], data) ELSE g[t] ]

\* The iteration without the semantic check.
processMethod_NoContinue(g, allMethods, us, i) ==
    LET data == makeMethodData(allMethods, us, i)
    IN  push(g, tiersFor(data.matchPercentage), data)

\* One iteration of the loop: `continue` on a semantic mismatch leaves the
\* groups as they are.
processMethod(g, allMethods, us, i) ==
    LET data == makeMethodData(allMethods, us, i)
    IN  IF isSemanticMismatch(allMethods[i], us) THEN g
        ELSE push(g, tiersFor(data.matchPercentage), data)

RECURSIVE loopMethods(_, _, _, _)
loopMethods(g, allMethods, us, i) ==
    IF i > Len(allMethods) THEN g
    ELSE loopMethods(processMethod(g, allMethods, us, i), allMethods, us, i + 1)

\* Stable insertion of e into a sequence ordered by descending matchPercentage.
RECURSIVE insertByPercentage(_, _)
insertByPercentage(sorted, e) ==
    IF sorted = <<>> THEN <<e>>
    ELSE IF sorted[Len(sorted)].matchPercentage >= e.matchPercentage
         THEN Append(sorted, e)
         ELSE Append(insertByPercentage(SubSeq(sorted, 1, Len(sorted) - 1), e),
                     sorted[Len(sorted)])

RECURSIVE sortByPercentage(_)
sortByPercentage(entries) ==
    IF entries = <<>> THEN <<>>
    ELSE insertByPercentage(
             sortByPercentage(SubSeq(entries, 1, Len(entries) - 1)),
             entries[Len(entries)])

groupMethodsByFit(allMethods, us) ==
    LET g == loopMethods(emptyGroups, allMethods, us, 1)
    IN  [ t \in DOMAIN g |-> sortByPercentage(g[t]) ]

----------------------------------------------------------------------------
(* Inputs *)

Method(name, attributes) == [ name |-> name, attributes |-> attributes ]

NoAttributes == [ c \in {} |-> {} ]

MethodPool ==
    { Method("Administrative Data",
             (SEM :> {"Institutional"}) @@ (TECH :> {"Low", "Medium"})
             @@ (CULT :> {"High", "Low"}) @@ (RES :> {"Low"})
             @@ (CTX :> {"Conflict"})),
      Method("One-on-One Interviews",
             (SEM :> {"Individual"}) @@ (CULT :> {"Low"}) @@ (RES :> {"Low"})
             @@ (CTX :> {"Conflict"})),
      Method("Focus Group Discussions",
             (SEM :> {}) @@ (CULT :> {"High", "Low"}) @@ (RES :> {})
             @@ (CTX :> {"Conflict"})),
      Method("Photovoice",
             (SEM :> {"Individual", "Institutional"}) @@ (TECH :> {"Low"})
             @@ (CULT :> {"High"}) @@ (RES :> {"Low"}) @@ (CTX :> {"Conflict"})),
      Method("Participatory Video/Digital Storytelling",
             (SEM :> {"Individual"}) @@ (TECH :> {"Low"})
             @@ (CULT :> {"High"}) @@ (CTX :> {"Conflict"})),
      Method("Digital Diaries/Journals",
             (SEM :> {"Individual"}) @@ (TECH :> {"Low"})
             @@ (CULT :> {"High"}) @@ (RES :> {"Low"}) @@ (CTX :> {})),
      Method("Key Informant Notes", NoAttributes) }

RECURSIVE SeqsUpTo(_, _)
SeqsUpTo(S, n) ==
    IF n = 0 THEN { <<>> }
    ELSE LET shorter == SeqsUpTo(S, n - 1)
         IN  shorter \cup { Append(s, x) : s \in shorter, x \in S }

Absent == [ present |-> FALSE, values |-> {} ]
Chosen(S) == [ present |-> TRUE, values |-> S ]

SelectionChoices(c) ==
    {Absent} \cup
    CASE c = SEM  -> { Chosen(S) : S \in SUBSET {"Individual", "Institutional"} }
      [] c = TECH -> { Chosen(S) : S \in SUBSET {"Low", "Medium"} }
      [] c = CULT -> { Chosen(S) : S \in SUBSET {"High", "Low"} }
      [] c = RES  -> { Chosen({"Low"}) }
      [] c = CTX  -> { Chosen({"Conflict"}) }
      [] c = STALE -> { Chosen({"Any"}) }

SelectionKeys == CategoryIds \cup {STALE}

MakeSelection(choice) ==
    [ c \in { k \in SelectionKeys : choice[k].present } |-> choice[c].values ]

----------------------------------------------------------------------------
(* The state machine *)

Init ==
    /\ catalog \in SeqsUpTo(MethodPool, MaxMethods)
    /\ \E s \in SelectionChoices(SEM), t \in SelectionChoices(TECH),
          c \in SelectionChoices(CULT), r \in SelectionChoices(RES),
          x \in SelectionChoices(CTX), u \in SelectionChoices(STALE) :
          userSelections =
              MakeSelection((SEM :> s) @@ (TECH :> t) @@ (CULT :> c)
                            @@ (RES :> r) @@ (CTX :> x) @@ (STALE :> u))
    /\ methodData = <<>>
    /\ groups = emptyGroups
    /\ validation = <<>>
    /\ pc = "idle"
    /\ headers = <<>>
    /\ categories = <<>>
    /\ methods = <<>>
    /\ rowsRead = 0
    /\ jsonData = <<>>
    /\ cpc = "off"

Classify ==
    /\ pc = "idle"
    /\ methodData' = [ i \in 1..Len(catalog) |->
                          makeMethodData(catalog, userSelections, i) ]
    /\ groups' = groupMethodsByFit(catalog, userSelections)
    /\ validation' = [ i \in 1..Len(catalog) |->
                          runSemanticCheck(catalog[i], userSelections) ]
    /\ pc' = "done"
    /\ UNCHANGED <<catalog, userSelections>>
    /\ UNCHANGED csvVars

Next == Classify

Spec == Init /\ [][Next]_vars

----------------------------------------------------------------------------
(* Reading the result *)

Tiers == {"bestFit", "goodAlternatives", "stretchOptions"}
Buckets == Tiers \cup {"excluded"}

Done == pc = "done"

Entries == 1..Len(catalog)

\* the number of entries of bucket t that refer to catalog entry i
Occurrences(i, t) ==
    Cardinality({ k \in 1..Len(groups[t]) : groups[t][k].method = i })

InBucket(i, t) == Occurrences(i, t) > 0

Suggested(i) == \E t \in Tiers : InBucket(i, t)

AnyRuleFires(i) ==
    \/ Rule1Fires(catalog[i], userSelections)
    \/ Rule2Fires(catalog[i], userSelections)
    \/ Rule3Fires(catalog[i], userSelections)

matchedCount(i) == Cardinality(methodData[i].matchedCategories)
filteredCount(i) == methodData[i].totalFilteredCategories

----------------------------------------------------------------------------
(* C1 *)

\* C1, as stated: once groupMethodsByFit has run, every method for which a
\* semantic rule fires is in `excluded` and in none of bestFit,
\* goodAlternatives, stretchOptions.
C1_VetoedIsInExcluded ==
    Done => \A i \in Entries :
        AnyRuleFires(i) => InBucket(i, "excluded") /\ ~Suggested(i)

\* C1, amended: once groupMethodsByFit has run, every method for which a
\* semantic rule fires is in none of bestFit, goodAlternatives and
\* stretchOptions, whatever its match percentage; the loop skips it and
\* records it in no bucket at all, `excluded` included.
C1_VetoedIsInNoBucket ==
    Done => \A i \in Entries :
        AnyRuleFires(i) => \A t \in Buckets : ~InBucket(i, t)

\* A method matching every filtered category (100) that a rule vetoes.
C1_Witness ==
    /\ Done
    /\ \E i \in Entries :
          /\ AnyRuleFires(i)
          /\ filteredCount(i) > 0
          /\ methodData[i].matchPercentage = 100
          /\ \A t \in Buckets : ~InBucket(i, t)

----------------------------------------------------------------------------
(* C2 *)

\* The level-overlap rule as the claim states it: sem_level holds values on
\* both sides and the two sets share none.
LevelOverlapViolated(method, us) ==
    /\ OrEmpty(us, SEM) # {}
    /\ OrEmpty(method.attributes, SEM) # {}
    /\ OrEmpty(us, SEM) \cap OrEmpty(method.attributes, SEM) = {}

\* C2: the level-overlap rule declares a method invalid iff sem_level is
\* present on both sides, the method declares at least one level and the two
\* value sets are disjoint; with sem_level absent or empty on either side the
\* rule does not fire.
C2_LevelOverlapRule ==
    Done => \A i \in Entries :
        Rule1Fires(catalog[i], userSelections)
            <=> LevelOverlapViolated(catalog[i], userSelections)

----------------------------------------------------------------------------
(* C3 *)

OnlyLowTech == OrEmpty(userSelections, TECH) = {"Low"}

\* C3: a method of the requires-reliable-technology list is excluded when the
\* technology selection is exactly {Low}; the technology-floor rule fires in
\* that case only: not for an empty or absent selection, not for Low together
\* with another value, and never for a method outside the list.  A listed
\* method that no other rule vetoes and that matches some filtered category is
\* then suggested.
C3_TechnologyFloor ==
    Done => \A i \in Entries :
        LET m == catalog[i]
            listed == m.name \in digitalMethods
        IN  /\ Rule2Fires(m, userSelections) <=> (listed /\ OnlyLowTech)
            /\ (listed /\ OnlyLowTech) => ~Suggested(i)
            /\ ( /\ ~OnlyLowTech \/ ~listed
                 /\ ~Rule1Fires(m, userSelections)
                 /\ ~Rule3Fires(m, userSelections)
                 /\ methodData[i].matchPercentage > 0 ) => Suggested(i)

\* A listed method scoring 100 under {Low} that is left out, next to a method
\* outside the list that is suggested under the same selection.
C3_Witness ==
    /\ Done
    /\ OnlyLowTech
    /\ \E i, j \in Entries :
          /\ catalog[i].name \in digitalMethods
          /\ methodData[i].matchPercentage = 100
          /\ ~Suggested(i)
          /\ catalog[j].name \notin digitalMethods
          /\ TECH \in DOMAIN catalog[j].attributes
          /\ Suggested(j)

----------------------------------------------------------------------------
(* C4 *)

OnlyHighCultural == OrEmpty(userSelections, CULT) = {"High"}

\* C4: a method of the visual/identity-exposing list is excluded when the
\* cultural-restrictiveness selection is exactly {High}; the
\* cultural-visibility rule fires in that case only: not for an empty or
\* absent selection, not for High together with another value, and never for a
\* method outside the list.  A method that no other rule vetoes and that
\* matches some filtered category is then suggested.
C4_CulturalVisibility ==
    Done => \A i \in Entries :
        LET m == catalog[i]
            listed == m.name \in visibilityMethods
        IN  /\ Rule3Fires(m, userSelections) <=> (listed /\ OnlyHighCultural)
            /\ (listed /\ OnlyHighCultural) => ~Suggested(i)
            /\ ( /\ ~OnlyHighCultural \/ ~listed
                 /\ ~Rule1Fires(m, userSelections)
                 /\ ~Rule2Fires(m, userSelections)
                 /\ methodData[i].matchPercentage > 0 ) => Suggested(i)

\* Photovoice scoring 100 under {High} is left out while a method outside the
\* list that declares High is suggested.
C4_Witness ==
    /\ Done
    /\ OnlyHighCultural
    /\ \E i, j \in Entries :
          /\ catalog[i].name = "Photovoice"
          /\ methodData[i].matchPercentage = 100
          /\ ~Suggested(i)
          /\ catalog[j].name \notin visibilityMethods
          /\ CULT \in DOMAIN catalog[j].attributes
          /\ Suggested(j)

----------------------------------------------------------------------------
(* C5 *)

\* C5: a method that passes the semantic check, with filtered > 0 filtered
\* categories of which it matches `matched`, is in bestFit iff
\* matched = filtered, in goodAlternatives iff matched < filtered and
\* 5*matched >= 4*filtered, in stretchOptions iff matched > 0 and
\* 5*matched < 4*filtered, and in no suggestion tier iff matched = 0.
C5_TierBoundaries ==
    Done => \A i \in Entries :
        (~AnyRuleFires(i) /\ filteredCount(i) > 0) =>
            LET matched == matchedCount(i)
                filtered == filteredCount(i)
            IN  /\ InBucket(i, "bestFit") <=> matched = filtered
                /\ InBucket(i, "goodAlternatives")
                       <=> (matched < filtered /\ 5 * matched >= 4 * filtered)
                /\ InBucket(i, "stretchOptions")
                       <=> (matched > 0 /\ 5 * matched < 4 * filtered)
                /\ ~Suggested(i) <=> matched = 0

\* 4 of 5 lands in goodAlternatives and 3 of 5 in stretchOptions.
C5_Witness ==
    /\ Done
    /\ \E i, j \in Entries :
          /\ ~AnyRuleFires(i) /\ ~AnyRuleFires(j)
          /\ filteredCount(i) = 5
          /\ matchedCount(i) = 4 /\ InBucket(i, "goodAlternatives")
          /\ matchedCount(j) = 3 /\ InBucket(j, "stretchOptions")

----------------------------------------------------------------------------
(* C6 *)

TotalOccurrences(i) ==
    Occurrences(i, "bestFit") + Occurrences(i, "goodAlternatives")
    + Occurrences(i, "stretchOptions") + Occurrences(i, "excluded")

\* C6: every catalog entry has exactly one outcome: one position in one of
\* the four buckets, or unlisted; it is unlisted only when a semantic rule
\* fires or its score is 0; every bucket entry refers to a catalog entry.
C6_Partition ==
    Done =>
        /\ DOMAIN groups = Buckets
        /\ \A i \in Entries :
              /\ TotalOccurrences(i) <= 1
              /\ TotalOccurrences(i) = 0
                    <=> (AnyRuleFires(i) \/ methodData[i].matchPercentage = 0)
        /\ \A t \in Buckets : \A k \in 1..Len(groups[t]) :
              groups[t][k].method \in Entries

\* The same method twice in the catalog: each copy has its own entry.
C6_Witness ==
    /\ Done
    /\ \E i, j \in Entries :
          /\ i # j
          /\ catalog[i] = catalog[j]
          /\ filteredCount(i) > 0
          /\ InBucket(i, "bestFit") /\ InBucket(j, "bestFit")

----------------------------------------------------------------------------
(* C7 *)

NoFilter == \A c \in DOMAIN userSelections : userSelections[c] = {}

\* A method the rules of the validator, as C2, C3 and C4 state them, veto.
SemanticallyInvalid(i) ==
    \/ LevelOverlapViolated(catalog[i], userSelections)
    \/ catalog[i].name \in digitalMethods /\ OnlyLowTech
    \/ catalog[i].name \in visibilityMethods /\ OnlyHighCultural

\* the positions in 1..n that satisfy keep, in increasing order
RECURSIVE KeptUpTo(_, _)
KeptUpTo(keep(_), n) ==
    IF n = 0 THEN <<>>
    ELSE IF keep(n) THEN Append(KeptUpTo(keep, n - 1), n)
         ELSE KeptUpTo(keep, n - 1)

\* C7: when no category of the selection is non-empty, bestFit is the catalog
\* without its semantically invalid entries, in catalog order, every entry
\* with matchPercentage 100 (1.0), and goodAlternatives and stretchOptions are
\* empty.
C7_NoFilterIdentity ==
    (Done /\ NoFilter) =>
        LET valid(i) == ~SemanticallyInvalid(i)
        IN  /\ [ k \in 1..Len(groups.bestFit) |-> groups.bestFit[k].method ]
                  = KeptUpTo(valid, Len(catalog))
            /\ \A k \in 1..Len(groups.bestFit) :
                  groups.bestFit[k].matchPercentage = 100
            /\ groups.goodAlternatives = <<>>
            /\ groups.stretchOptions = <<>>

----------------------------------------------------------------------------
(* C8 *)

\* C8: matchedCategories is exactly the set of known categories with a
\* non-empty selection that the method does not declare or shares a value
\* with; totalFilteredCategories counts the categories with a non-empty
\* selection; an undeclared category never lowers the score, a declared one
\* without a common value (the declared empty set included) does.
C8_Score ==
    Done => \A i \in Entries :
        LET attributes == catalog[i].attributes
            filtered == { c \in CategoryIds \cap DOMAIN userSelections :
                            userSelections[c] # {} }
            data == methodData[i]
        IN  /\ data.totalFilteredCategories = Cardinality(filtered)
            /\ data.matchedCategories =
                  { c \in filtered :
                      \/ c \notin DOMAIN attributes
                      \/ \E v \in userSelections[c] : v \in attributes[c] }
            /\ \A c \in filtered :
                  /\ c \notin DOMAIN attributes => c \in data.matchedCategories
                  /\ ( /\ c \in DOMAIN attributes
                       /\ attributes[c] \cap userSelections[c] = {} )
                        => (c \notin data.matchedCategories
                            /\ data.matchPercentage < 100)

\* One filtered category the method leaves undeclared (matched) and one it
\* declares as the empty set (not matched).
C8_Witness ==
    /\ Done
    /\ \E i \in Entries : \E c, d \in CategoryIds :
          /\ c \in DOMAIN userSelections /\ userSelections[c] # {}
          /\ d \in DOMAIN userSelections /\ userSelections[d] # {}
          /\ c \notin DOMAIN catalog[i].attributes
          /\ c \in methodData[i].matchedCategories
          /\ d \in DOMAIN catalog[i].attributes
          /\ catalog[i].attributes[d] = {}
          /\ d \notin methodData[i].matchedCategories

----------------------------------------------------------------------------
(* C9 *)

KnownOnly(us) == [ c \in DOMAIN us \cap CategoryIds |-> us[c] ]

\* C9: a non-empty entry under an id that is no category of the catalog
\* changes nothing: buckets, order, matchPercentage and matchedCategories are
\* those of the selection without that entry.
C9_UnknownCategoryIgnored ==
    Done =>
        /\ groups = groupMethodsByFit(catalog, KnownOnly(userSelections))
        /\ methodData = [ i \in Entries |->
                            makeMethodData(catalog, KnownOnly(userSelections), i) ]

\* A selection with a stale id and a method that matches only part of the
\* known filters.
C9_Witness ==
    /\ Done
    /\ STALE \in DOMAIN userSelections
    /\ userSelections[STALE] # {}
    /\ \E i \in Entries :
          /\ InBucket(i, "stretchOptions")
          /\ methodData[i].matchPercentage = 50

----------------------------------------------------------------------------
(* csv-to-json.js.  A string is the sequence of its characters. *)

UpperCase == << "A", "B", "C", "D", "E", "F", "G", "H", "I", "J", "K", "L", "M",
                "N", "O", "P", "Q", "R", "S", "T", "U", "V", "W", "X", "Y", "Z" >>
LowerCase == << "a", "b", "c", "d", "e", "f", "g", "h", "i", "j", "k", "l", "m",
                "n", "o", "p", "q", "r", "s", "t", "u", "v", "w", "x", "y", "z" >>
Digits == { "0", "1", "2", "3", "4", "5", "6", "7", "8", "9" }

IsSpace(ch) == ch \in { " ", "\t" }

\* [a-z0-9_]
IsIdChar(ch) ==
    \/ \E n \in 1..26 : LowerCase[n] = ch
    \/ ch \in Digits
    \/ ch = "_"

toLowerCase(str) ==
    [ k \in 1..Len(str) |->
        IF \E n \in 1..26 : UpperCase[n] = str[k]
        THEN LowerCase[CHOOSE n \in 1..26 : UpperCase[n] = str[k]]
        ELSE str[k] ]

RECURSIVE trimStart(_)
trimStart(str) ==
    IF str # <<>> /\ IsSpace(Head(str)) THEN trimStart(Tail(str)) ELSE str

RECURSIVE trimEnd(_)
trimEnd(str) ==
    IF str # <<>> /\ IsSpace(str[Len(str)])
    THEN trimEnd(SubSeq(str, 1, Len(str) - 1))
    ELSE str

trim(str) == trimEnd(trimStart(str))

startsWith(str, prefix) ==
    Len(str) >= Len(prefix) /\ SubSeq(str, 1, Len(prefix)) = prefix

\* Array.prototype.includes, String.prototype.includes for one character
includes(seq, x) == \E k \in 1..Len(seq) : seq[k] = x

\* .replace(/\s+/g, '_')
RECURSIVE replaceWhitespace(_)
replaceWhitespace(str) ==
    IF str = <<>> THEN <<>>
    ELSE IF IsSpace(Head(str))
         THEN <<"_">> \o replaceWhitespace(trimStart(str))
         ELSE <<Head(str)>> \o replaceWhitespace(Tail(str))

\* categoryName.toLowerCase().replace(/\s+/g, '_').replace(/[^a-z0-9_]/g, '')
toCategoryId(categoryName) ==
    SelectSeq(replaceWhitespace(toLowerCase(categoryName)), IsIdChar)

\* the position of the first character after position i that is no
\* whitespace, Len(str) + 1 when there is none
RECURSIVE skipSpaces(_, _)
skipSpaces(str, i) ==
    IF i + 1 <= Len(str) /\ IsSpace(str[i + 1]) THEN skipSpaces(str, i + 1)
    ELSE i + 1

\* header.match(/^(.+?)\s*-\s*(.+)$/): group 1 is the shortest non-empty
\* prefix that is followed by optional whitespace, a hyphen and at least one
\* more character; both groups are trimmed by the caller.
matchHeader(header) ==
    LET ends == { i \in 1..Len(header) :
                    LET d == skipSpaces(header, i)
                    IN  d < Len(header) /\ header[d] = "-" }
    IN  IF ends = {} THEN [ matched |-> FALSE ]
        ELSE LET i == CHOOSE e \in ends : \A f \in ends : e <= f
                 d == skipSpaces(header, i)
             IN  [ matched |-> TRUE,
                   categoryName |-> trim(SubSeq(header, 1, i)),
                   optionName |-> trim(SubSeq(header, d + 1, Len(header))) ]

LINK == << "l", "i", "n", "k" >>
URL == << "u", "r", "l" >>
REFERENCE == << "r", "e", "f", "e", "r", "e", "n", "c", "e" >>
LINK2 == << "l", "i", "n", "k", "2" >>
COST_TIER == << "c", "o", "s", "t", " ", "t", "i", "e", "r" >>
CONNECTIVITY == << "c", "o", "n", "n", "e", "c", "t", "i", "v", "i", "t", "y" >>
TYPE == << "t", "y", "p", "e" >>
DESCRIPTION == << "d", "e", "s", "c", "r", "i", "p", "t", "i", "o", "n" >>
NULL == << "n", "u", "l", "l" >>
HTTP == << "h", "t", "t", "p", ":", "/", "/" >>
HTTPS == << "h", "t", "t", "p", "s", ":", "/", "/" >>
WWW == << "w", "w", "w", "." >>

isLinkHeader(headerLower) == headerLower \in { LINK, URL, REFERENCE }

\* The keys an empty object literal inherits that a category id can spell:
\* categoryMap[id] is truthy for them before any category is stored.
InheritedKeys ==
    { << "c", "o", "n", "s", "t", "r", "u", "c", "t", "o", "r" >>,
      << "_", "_", "p", "r", "o", "t", "o", "_", "_" >> }

categoryIndex(cats, categoryId) ==
    { k \in 1..Len(cats) : cats[k].id = categoryId }

\* options.push(optionName) without the includes test
addOption_NoCheck(category, optionName) ==
    [ category EXCEPT !.options = Append(@, optionName) ]

\* if (!options.includes(optionName)) options.push(optionName)
addOption(category, optionName) ==
    IF includes(category.options, optionName) THEN category
    ELSE [ category EXCEPT !.options = Append(@, optionName) ]

\* One iteration of the header loop on headers[i]; `threw` records the
\* TypeError of reading .options of an inherited property.
processHeader(acc, header) ==
    LET headerLower == trim(toLowerCase(header))
        m == matchHeader(header)
    IN  IF acc.threw \/ isLinkHeader(headerLower) \/ ~m.matched THEN acc
        ELSE LET categoryId == toCategoryId(m.categoryName)
                 found == categoryIndex(acc.categories, categoryId)
             IN  IF found = {} /\ categoryId \in InheritedKeys
                 THEN [ acc EXCEPT !.threw = TRUE ]
                 ELSE LET cats == IF found = {}
                                  THEN Append(acc.categories,
                                              [ id |-> categoryId,
                                                name |-> m.categoryName,
                                                options |-> <<>> ])
                                  ELSE acc.categories
                          k == CHOOSE x \in categoryIndex(cats, categoryId) : TRUE
                      IN  [ acc EXCEPT !.categories =
                              [ cats EXCEPT ![k] = addOption(@, m.optionName) ] ]

RECURSIVE processHeaders(_, _, _)
processHeaders(acc, hdrs, i) ==
    IF i > Len(hdrs) THEN acc
    ELSE processHeaders(processHeader(acc, hdrs[i]), hdrs, i + 1)

truthyValues ==
    { <<"t","r","u","e">>, <<"y","e","s">>, <<"1">>, <<"x">>,
      <<"T","R","U","E">>, <<"Y","E","S">>, <<"X">>,
      <<"T","r","u","e">>, <<"Y","e","s">> }

\* obj[key] = value
setField(obj, key, value) == (key :> value) @@ obj

\* The link and link2 columns: kept with its protocol, prefixed with
\* https:// when it starts with www. or looks like a bare domain, dropped
\* otherwise.
withLink(method, field, value) ==
    IF value = NULL THEN method
    ELSE IF startsWith(value, HTTP) \/ startsWith(value, HTTPS)
         THEN setField(method, field, value)
    ELSE IF startsWith(value, WWW) THEN setField(method, field, HTTPS \o value)
    ELSE IF includes(value, ".") /\ ~includes(value, " ")
         THEN setField(method, field, HTTPS \o value)
    ELSE method

withScalar(method, field, value) ==
    IF value = NULL THEN method ELSE setField(method, field, value)

\* The category-option column: the array is created for every non-empty cell,
\* the option is pushed for a truthy one.
withAttribute(method, header, value) ==
    LET m == matchHeader(header)
    IN  IF ~m.matched THEN method
        ELSE LET categoryId == toCategoryId(m.categoryName)
                 attrs == method.attributes
                 initialised == IF categoryId \in DOMAIN attrs THEN attrs
                                ELSE (categoryId :> <<>>) @@ attrs
                 pushed == IF value \in truthyValues
                              /\ ~includes(initialised[categoryId], m.optionName)
                           THEN [ initialised EXCEPT ![categoryId] =
                                    Append(@, m.optionName) ]
                           ELSE initialised
             IN  [ method EXCEPT !.attributes = pushed ]

\* One iteration of the column loop on column j of a data line.
processColumn(method, header, cell) ==
    LET value == trim(cell)
        headerLower == trim(toLowerCase(header))
    IN  IF value = <<>> THEN method
        ELSE IF isLinkHeader(headerLower) THEN withLink(method, "link", value)
        ELSE IF headerLower = LINK2 THEN withLink(method, "link2", value)
        ELSE IF headerLower = COST_TIER THEN withScalar(method, "costTier", value)
        ELSE IF headerLower = CONNECTIVITY
             THEN withScalar(method, "connectivity", value)
        ELSE IF headerLower = TYPE THEN withScalar(method, "type", value)
        ELSE IF headerLower = DESCRIPTION
             THEN withScalar(method, "description", value)
        ELSE withAttribute(method, header, value)

RECURSIVE processColumns(_, _, _, _)
processColumns(method, hdrs, values, j) ==
    IF j > Len(values) \/ j > Len(hdrs) THEN method
    ELSE processColumns(processColumn(method, hdrs[j], values[j]),
                        hdrs, values, j + 1)

DefaultDescription(methodName) ==
    methodName \o << " methodology for adolescent girl empowerment research" >>

\* The method a data line with a non-empty name yields.
buildMethod(hdrs, values) ==
    LET methodName == trim(values[1])
        method == processColumns(
                      [ name |-> methodName, description |-> <<>>,
                        attributes |-> [ c \in {} |-> <<>> ] ],
                      hdrs, values, 2)
    IN  IF trim(method.description) = <<>>
        THEN [ method EXCEPT !.description = DefaultDescription(methodName) ]
        ELSE method

----------------------------------------------------------------------------
(* csv-to-json.js: inputs and state machine *)

HeaderPool ==
    { << "A", " ", "-", " ", "x" >>,
      << "a", "-", "x" >>,
      << "A", "!", " ", "-", "y", "-", "z" >>,
      << "B", " ", "c", "-", "x" >>,
      << "L", "i", "n", "k" >>,
      << "T", "y", "p", "e" >>,
      << "c", "o", "n", "s", "t", "r", "u", "c", "t", "o", "r", "-", "x" >> }

NamePool == { << "M" >>, << " " >> }

CellPool == { <<>>, << " ", "X" >>, << "a", ".", "b" >> }

NameHeader == << "M", "e", "t", "h", "o", "d" >>

HeaderRows ==
    { <<NameHeader>> \o columns : columns \in SeqsUpTo(HeaderPool, MaxColumns) }

\* the data lines that fit a header row: a name and one cell per column
DataRows(hdrs) ==
    { <<name>> \o cells :
        name \in NamePool, cells \in [ 1..(Len(hdrs) - 1) -> CellPool ] }

InitCsv ==
    /\ headers \in HeaderRows
    /\ categories = <<>>
    /\ methods = <<>>
    /\ rowsRead = 0
    /\ jsonData = <<>>
    /\ cpc = "read"
    /\ catalog = <<>>
    /\ userSelections = NoAttributes
    /\ methodData = <<>>
    /\ groups = emptyGroups
    /\ validation = <<>>
    /\ pc = "off"

\* The header loop: the categories, or the TypeError that ends the process.
ParseHeaders ==
    /\ cpc = "read"
    /\ LET acc == processHeaders([ categories |-> <<>>, threw |-> FALSE ],
                                 headers, 2)
       IN  /\ categories' = acc.categories
           /\ cpc' = IF acc.threw THEN "threw" ELSE "rows"
    /\ UNCHANGED <<headers, methods, rowsRead, jsonData>>
    /\ UNCHANGED engineVars

\* One iteration of the row loop: a line without a method name is skipped.
ProcessRow ==
    /\ cpc = "rows"
    /\ rowsRead < MaxRows
    /\ \E values \in DataRows(headers) :
          methods' = IF trim(values[1]) = <<>> THEN methods
                     ELSE Append(methods, buildMethod(headers, values))
    /\ rowsRead' = rowsRead + 1
    /\ UNCHANGED <<headers, categories, jsonData, cpc>>
    /\ UNCHANGED engineVars

\* The end of the input: jsonData is written to the output file.
WriteJson ==
    /\ cpc = "rows"
    /\ jsonData' = [ categories |-> categories, methods |-> methods ]
    /\ cpc' = "written"
    /\ UNCHANGED <<headers, categories, methods, rowsRead>>
    /\ UNCHANGED engineVars

NextCsv == ParseHeaders \/ ProcessRow \/ WriteJson

SpecCsv == InitCsv /\ [][NextCsv]_vars

----------------------------------------------------------------------------
(* C10 *)

NoDuplicates(seq) ==
    \A k, l \in 1..Len(seq) : k # l => seq[k] # seq[l]

Written == cpc = "written"

\* C10: in the written output no two categories share an id, no category
\* lists an option twice, no attributes[categoryId] of a method holds a value
\* twice, and every value of attributes[categoryId] is an option of the
\* category with that id.
C10_IngestionInvariants ==
    Written =>
        LET cats == jsonData.categories
        IN  /\ \A k, l \in 1..Len(cats) : k # l => cats[k].id # cats[l].id
            /\ \A k \in 1..Len(cats) : NoDuplicates(cats[k].options)
            /\ \A n \in 1..Len(jsonData.methods) :
                  LET attributes == jsonData.methods[n].attributes
                  IN  \A c \in DOMAIN attributes :
                        /\ NoDuplicates(attributes[c])
                        /\ \E k \in 1..Len(cats) :
                              /\ cats[k].id = c
                              /\ \A v \in 1..Len(attributes[c]) :
                                    includes(cats[k].options, attributes[c][v])

\* Two columns that spell the same category id and the same option, both
\* ticked on a data line: one category, one option, one attribute value.
C10_Witness ==
    /\ Written
    /\ Len(headers) = 3
    /\ matchHeader(headers[2]).matched /\ matchHeader(headers[3]).matched
    /\ headers[2] # headers[3]
    /\ Len(jsonData.categories) = 1
    /\ Len(jsonData.categories[1].options) = 1
    /\ \E n \in 1..Len(jsonData.methods) :
          LET attributes == jsonData.methods[n].attributes
          IN  \E c \in DOMAIN attributes : Len(attributes[c]) = 1

----------------------------------------------------------------------------
(* C11 *)

\* the rules of RuleOrder that fire for catalog entry i, in table order
FiringRules(i) ==
    SelectSeq(RuleOrder, LAMBDA r : ruleFires(r, catalog[i], userSelections))

\* C11, as stated: the validator evaluates all three rules for every method
\* and reports one reason for each rule that fires, in table order, so a
\* method hit by several rules carries several reasons; the reasons are
\* non-empty iff the validator excludes the method.
C11_AllRulesReported ==
    Done => \A i \in Entries :
        /\ validation[i].evaluated = RuleOrder
        /\ validation[i].returnedBy = FiringRules(i)
        /\ validation[i].returnedBy # <<>> <=> validation[i].result

\* C11, amended: the validator tests the rules in table order and returns
\* true at the first one that fires without testing the later ones, so a
\* method hit by several rules is vetoed by the first of them alone; it
\* returns a boolean and no list of reasons; it returns true iff some rule
\* fires, and a method it returns true for is in no bucket.
C11_FirstFiringRuleReturns ==
    Done => \A i \in Entries :
        LET v == validation[i]
            firing == FiringRules(i)
        IN  /\ v.result <=> firing # <<>>
            /\ v.returnedBy = IF firing = <<>> THEN <<>> ELSE << firing[1] >>
            /\ v.evaluated = IF firing = <<>> THEN RuleOrder
                             ELSE SubSeq(RuleOrder, 1, Len(v.evaluated))
            /\ firing # <<>> => v.evaluated[Len(v.evaluated)] = firing[1]
            /\ v.result => \A t \in Buckets : ~InBucket(i, t)

\* A method of both allow-lists under {Low} and {High}: the technology-floor
\* rule returns and the cultural-visibility rule is never tested.
C11_Witness ==
    /\ Done
    /\ \E i \in Entries :
          /\ Rule2Fires(catalog[i], userSelections)
          /\ Rule3Fires(catalog[i], userSelections)
          /\ validation[i].result
          /\ validation[i].returnedBy = << "technology-floor" >>
          /\ validation[i].evaluated = << "level-overlap", "technology-floor" >>

=============================================================================
